---- MODULE Spec2Model ----
(***************************************************************************)
(* Model of the guide-admin dashboard: the httpGet fetch client            *)
(* (lib/httpHelper.ts), the dashboard page Home (app/page.tsx) and the     *)
(* trips page Trips (app/trips/page.tsx).                                  *)
(*                                                                         *)
(* JavaScript values are tagged records: Null, Undefined, Bool(b), Num(n), *)
(* Txt(s) for opaque text (messages, type discriminators) and Str(s) for   *)
(* text that is searched, kept as a sequence of one-character strings.     *)
(***************************************************************************)
EXTENDS Integers, Sequences, FiniteSets, TLC

VARIABLES
    route,        \* the page whose component is mounted: "none", "home", "trips"
    mountId,      \* number of component mounts so far; identifies the live mount
    requests,     \* every httpGet call issued so far, in issue order
    users,        \* Home: useState<User[]>([])
    trips,        \* Trips: useState<Trip[]>([])
    loading,      \* useState(true)
    error,        \* useState<string | null>(null)
    searchTerm,   \* useState("")
    filterType,   \* useState("all")
    activeTab,    \* useState("overview") / useState("trips")
    selectedTrip, \* Trips: useState<Trip | null>(null)
    isModalOpen,  \* Trips: useState(false)
    outcome,      \* what `await httpGet(...)` gave the mounted component
    call,         \* one httpGet call on its own: the response and the outcome
    now,          \* what `new Date()` gave when the statistics were computed
    runtime       \* the platform the program runs on: its JavaScript engine
                  \* and the time zone of its clock

vars == <<route, mountId, requests, users, trips, loading, error,
          searchTerm, filterType, activeTab, selectedTrip, isModalOpen,
          outcome, call, now, runtime>>

\* ------------------------------------------------------------------------
\* Bounds

\* component mounts (page views) in one behaviour
MaxMounts == 3
\* httpGet calls in one behaviour
MaxRequests == 3
\* records in a list delivered by the server
MaxRecords == 2
\* records in a delivered list while the orderings, the guide set and the
\* statistics are explored
MaxListed == 3
\* quarter hours by which the local clock is moved within a week
MaxQuarterHours == 8

\* ------------------------------------------------------------------------
\* JavaScript values

Null == [t |-> "null"]
Undefined == [t |-> "undefined"]
Bool(b) == [t |-> "boolean", b |-> b]
Num(n) == [t |-> "number", n |-> n]
Txt(s) == [t |-> "string", text |-> s]
Str(s) == [t |-> "string", chars |-> s]
List(l) == [t |-> "array", items |-> l]

IsNullish(v) == v.t \in {"null", "undefined"}

\* ToBoolean for the values the pages test
Truthy(v) ==
    CASE v.t = "boolean" -> v.b
      [] v.t = "number" -> v.n # 0
      [] v.t = "string" -> IF "text" \in DOMAIN v THEN v.text # "" ELSE v.chars # <<>>
      [] v.t = "isodate" -> TRUE
      [] v.t = "array" -> TRUE
      [] v.t = "object" -> TRUE
      [] OTHER -> FALSE

\* a || b
JsOr(a, b) == IF Truthy(a) THEN a ELSE b

\* a && b
JsAnd(a, b) == IF Truthy(a) THEN b ELSE a

\* ------------------------------------------------------------------------
\* lib/httpHelper.ts

\* HTTP status codes the server answers with: when httpGet is explored on
\* its own, and while the page life cycle is
Statuses == {200, 299, 300, 404, 500}
WireStatuses == {200, 500}

\* Response.ok
ResOk(status) == status >= 200 /\ status <= 299

\* outcome of an async call: a returned value or a thrown Error (its message)
Returned(v) == [threw |-> FALSE, value |-> v]
Threw(m) == [threw |-> TRUE, message |-> m]
Pending == [threw |-> FALSE, value |-> [t |-> "pending"]]

\* response bodies: text that is not JSON (its characters), or a JSON value
Unparseable(chars) == [json |-> FALSE, chars |-> chars]
Json(v) == [json |-> TRUE, value |-> v]
NoBody == [json |-> FALSE, none |-> TRUE]
Envelope(m, d) == [t |-> "object", message |-> m, data |-> d]

\* the JavaScript engines the program runs on, by the wording of their
\* messages: V8 up to 8 (Node 14 and earlier), V8 9 and 10 (Node 16 and 18)
\* and V8 from 11 on (Node 20 and later)
Engines == {"V8 8", "V8 10", "V8 11"}

\* the characters as one string
RECURSIVE Join(_)
Join(chars) == IF chars = <<>> THEN "" ELSE Head(chars) \o Join(Tail(chars))

\* the texts that are not JSON: each is rejected at its first character, or
\* at its end when it is empty
NotJson == {<<"<", "h", "t", "m", "l", ">">>, <<>>, <<"o", "o", "p", "s">>}

\* message of the SyntaxError JSON.parse raises on the text, in the words
\* of the engine
SyntaxErrorText(chars) ==
    IF chars = <<>> THEN "Unexpected end of JSON input"
    ELSE IF runtime.engine \in {"V8 8", "V8 10"}
         THEN "Unexpected token " \o Head(chars) \o " in JSON at position 0"
         ELSE "Unexpected token '" \o Head(chars) \o "', \"" \o Join(chars)
                  \o "\" is not valid JSON"

\* message of the TypeError raised by reading a property of null, in the
\* words of the engine
TypeErrorText(property) ==
    IF runtime.engine = "V8 8"
    THEN "Cannot read property '" \o property \o "' of null"
    ELSE "Cannot read properties of null (reading '" \o property \o "')"

\* `HTTP error! status: ${res.status}`
GenericError(status) == "HTTP error! status: " \o ToString(status)

\* await res.json()
ResJson(body) ==
    IF body.json THEN Returned(body.value) ELSE Threw(SyntaxErrorText(body.chars))

\* errData.message, which throws a TypeError when errData is null
ReadMessage(errData) ==
    IF errData.t = "null" THEN Threw(TypeErrorText("message"))
    ELSE IF errData.t = "object" THEN Returned(errData.message)
    ELSE Returned(Undefined)

\* (variant of ErrorText: the body of the error response is never read)
ErrorTextAlwaysGeneric(status, body) == GenericError(status)

\* the text httpGet throws for a response that is not ok (lines 17-21)
ErrorText(status, body) ==
    LET msg == GenericError(status)
        parsed == ResJson(body)
    IN  IF parsed.threw THEN msg
        ELSE LET read == ReadMessage(parsed.value)
             IN  IF read.threw THEN msg
                 ELSE IF Truthy(read.value) THEN read.value.text ELSE msg

\* (variant of httpGet: the parsed envelope is returned as it is)
httpGetWholeEnvelope(status, body) ==
    IF ~ResOk(status) THEN Threw(ErrorText(status, body))
    ELSE ResJson(body)

\* the part of httpGet after `await fetch(url)` has resolved with res
httpGet(status, body) ==
    IF ~ResOk(status) THEN Threw(ErrorText(status, body))
    ELSE LET parsed == ResJson(body)
         IN  IF parsed.threw THEN parsed
             ELSE IF parsed.value.t = "null" THEN Threw(TypeErrorText("data"))
             ELSE IF parsed.value.t = "object" THEN Returned(parsed.value.data)
             ELSE Returned(Undefined)

\* ------------------------------------------------------------------------
\* interfaces/users.ts, interfaces/trips.ts: the fields the pages read

MkUser(id, name, surname, phone, plate, car, type, active, onboarded, login, reward) ==
    [t |-> "object", id |-> id, name |-> name, surname |-> surname, phone |-> phone,
     plate_number |-> plate, car_model |-> car, type |-> type, is_active |-> active,
     is_onboarded |-> onboarded, last_login_at |-> login, reward_amount |-> reward]

MkCompany(name) == [t |-> "object", name |-> name]

MkTrip(id, code, guide, driver, company, finished, cancelled, amount) ==
    [t |-> "object", id |-> id, code |-> code, guide |-> guide, driver |-> driver,
     company |-> company, is_finished |-> finished, is_cancelled |-> cancelled,
     total_amount |-> amount]

\* Times are milliseconds, as Date.prototype.getTime() gives them.
MsPerDay == 1000 * 60 * 60 * 24

\* a non-empty ISO date string, by the instant `new Date(string)` parses it to
IsoTime(ms) == [t |-> "isodate", time |-> ms]

\* the instants at which the statistics are computed
Epoch == 10 * MsPerDay
Clock == {Epoch, Epoch - MsPerDay \div 48}

\* by how much the offset of the local time zone from UTC at an instant
\* exceeds its offset at the same local time of day seven days earlier: 0
\* in a week without a clock change; in the week in which daylight saving
\* time begins the amount the clock is put forward (an hour in most zones,
\* 30 minutes in Australia/Lord_Howe, 2 hours in Antarctica/Troll), minus
\* that amount in the week in which it ends; the amount by which a zone
\* changes its standard time in that week (40 minutes and 44 and a half
\* minutes forward, 3 hours and 7 hours either way have occurred); a whole day
\* in the week in which a zone skips a calendar day (Pacific/Apia at the
\* end of 2011)
ZoneShifts ==
    {k * (MsPerDay \div 96) : k \in (0 - MaxQuarterHours)..MaxQuarterHours}
        \cup {MsPerDay \div 36, 89 * (MsPerDay \div 2880)}
        \cup {0 - 7 * (MsPerDay \div 24), 0 - MsPerDay \div 8,
              MsPerDay \div 8, 7 * (MsPerDay \div 24)}
        \cup {MsPerDay}

\* the platforms: an engine and what the time zone did in the last week
Runtimes == [engine : Engines, weekShift : ZoneShifts]

\* the platforms in a week without a clock change, where only the wording
\* of the engine varies, and the platforms of one engine, where only the
\* time zone varies
EngineRuntimes == {r \in Runtimes : r.weekShift = 0}
ZoneRuntimes == {r \in Runtimes : r.engine = "V8 11"}

\* every sequence over pool of length at most n
RECURSIVE ListsOf(_, _)
ListsOf(pool, n) ==
    IF n = 0 THEN {<<>>}
    ELSE LET shorter == ListsOf(pool, n - 1)
         IN  shorter \cup {Append(l, x) : l \in {s \in shorter : Len(s) = n - 1}, x \in pool}

\* Users the server may deliver.  Between them: mixed-case names, an empty
\* name, a user whose searched fields are all missing, phones that carry
\* letters, a missing and an empty type, two records sharing an id, and
\* last logins 6 days, 7 days, 7 days and a second before Epoch, a second
\* after it, and none.
UserAb == MkUser(1, Str(<<"A", "b">>), Str(<<"b">>), Str(<<"7">>), Null, Null,
                 Txt("guide"), TRUE, FALSE, IsoTime(Epoch - 6 * MsPerDay), Num(5))
UserBlank == MkUser(2, Null, Undefined, Null, Null, Undefined,
                    Null, FALSE, TRUE, Null, Null)
UserEmptyName == MkUser(3, Str(<<>>), Null, Null, Null, Null,
                        Txt("driver"), TRUE, TRUE, IsoTime(Epoch - 7 * MsPerDay), Num(5))
UserPhone == MkUser(4, Null, Null, Str(<<"7", "a">>), Str(<<"B">>), Str(<<"a", "A">>),
                    Txt(""), FALSE, FALSE, IsoTime(Epoch - 7 * MsPerDay - 1000), Num(10))
UserTwin == MkUser(1, Str(<<"a">>), Str(<<"B", "7">>), Str(<<"A">>), Str(<<"b">>), Null,
                   Txt("driver"), FALSE, TRUE, IsoTime(Epoch + 1000), Num(0))

UserPool == {UserAb, UserBlank, UserEmptyName, UserPhone, UserTwin}

\* Trips the server may deliver: with and without guide, driver, company and
\* code, and with every combination of the two status flags, each on a trip
\* with some searched field present.
TripAb == MkTrip(1, Str(<<"A", "b">>), UserAb, Null, MkCompany(Str(<<"b">>)),
                 FALSE, FALSE, Num(5))
TripBlank == MkTrip(2, Null, Null, Undefined, Null, TRUE, TRUE, Null)
TripPhone == MkTrip(3, Undefined, UserPhone, UserBlank, MkCompany(Null),
                    FALSE, TRUE, Num(0))
TripTwin == MkTrip(4, Str(<<"7">>), UserTwin, UserPhone, MkCompany(Str(<<>>)),
                   TRUE, FALSE, Num(10))
TripBlankGuide == MkTrip(5, Str(<<"B">>), UserBlank, Null, Undefined, TRUE, TRUE, Num(5))

TripPool == {TripAb, TripBlank, TripPhone, TripTwin, TripBlankGuide}

\* the lists the two endpoints answer with while the page life cycle is explored
WireUsers == {<<>>, <<UserAb>>, <<UserAb, UserBlank>>}
WireTrips == {<<>>, <<TripAb>>, <<TripAb, TripBlank>>}

\* the lists the derived views are explored on
ViewUsers == ListsOf(UserPool, MaxRecords)
ViewTrips == ListsOf(TripPool, MaxRecords)

\* what the user types into the search box: while the page life cycle is
\* explored, and while the derived views are
SearchTerms == {<<>>, <<"a">>}
ViewSearchTerms == {<<>>, <<"a">>, <<"A">>, <<"b">>, <<"7">>, <<"c">>,
                    <<"a", "b">>, <<"7", "A">>, <<"b", "a">>}

\* ------------------------------------------------------------------------
\* String.prototype methods on sequences of characters

LowerChar(c) ==
    CASE c = "A" -> "a"
      [] c = "B" -> "b"
      [] c = "C" -> "c"
      [] OTHER -> c

toLowerCase(s) == [i \in 1..Len(s) |-> LowerChar(s[i])]

\* s.includes(x): x occurs in s as a contiguous run
includes(s, x) ==
    \E i \in 0..(Len(s) - Len(x)) : SubSeq(s, i + 1, i + Len(x)) = x

\* obj?.field
Opt(obj, field) == IF IsNullish(obj) THEN Undefined ELSE obj[field]

\* (variant of LowerIncludes: the term is compared as typed)
LowerIncludesTermAsTyped(v, term) ==
    IF IsNullish(v) THEN Undefined
    ELSE Bool(includes(toLowerCase(v.chars), term))

\* (variant of LowerIncludes: a missing field matches every term)
LowerIncludesMissingMatches(v, term) ==
    IF IsNullish(v) THEN Bool(TRUE)
    ELSE Bool(includes(toLowerCase(v.chars), toLowerCase(term)))

\* v?.toLowerCase().includes(term.toLowerCase())
LowerIncludes(v, term) ==
    IF IsNullish(v) THEN Undefined
    ELSE Bool(includes(toLowerCase(v.chars), toLowerCase(term)))

\* v?.includes(term)
RawIncludes(v, term) ==
    IF IsNullish(v) THEN Undefined ELSE Bool(includes(v.chars, term))

\* arr.filter(keep), keep being a function on the indices of arr
RECURSIVE FilterIdx(_, _, _)
FilterIdx(arr, keep, i) ==
    IF i > Len(arr) THEN <<>>
    ELSE (IF keep[i] THEN <<arr[i]>> ELSE <<>>) \o FilterIdx(arr, keep, i + 1)

Filter(arr, keep) == FilterIdx(arr, keep, 1)

\* ------------------------------------------------------------------------
\* app/page.tsx: Home, derived values

\* matchesSearch of Home.filteredUsers
Home_matchesSearch(user, term) ==
    JsOr(JsOr(JsOr(LowerIncludes(user.name, term),
                   LowerIncludes(user.surname, term)),
              RawIncludes(user.phone, term)),
         LowerIncludes(user.plate_number, term))

\* user.type === filterType
TypeIs(type, filter) == type.t = "string" /\ type.text = filter

\* (variant of Home_matchesType: "all" is compared like any other type)
Home_matchesTypeNoSentinel(user, filter) == Bool(TypeIs(user.type, filter))

\* matchesType of Home.filteredUsers
Home_matchesType(user, filter) == Bool(filter = "all" \/ TypeIs(user.type, filter))

\* a ?? b
Coalesce(a, b) == IF IsNullish(a) THEN b ELSE a

\* (variant of compareUsers: users with equal rewards are not ordered further)
compareUsersNoTieBreak(a, b) ==
    Coalesce(b.reward_amount, Num(0)).n - Coalesce(a.reward_amount, Num(0)).n

\* the comparator of Home.filteredUsers
compareUsers(a, b) ==
    LET rewardA == Coalesce(a.reward_amount, Num(0)).n
        rewardB == Coalesce(b.reward_amount, Num(0)).n
        onboardedA == IF a.is_onboarded THEN 1 ELSE 0
        onboardedB == IF b.is_onboarded THEN 1 ELSE 0
    IN  IF rewardA # rewardB THEN rewardB - rewardA ELSE onboardedB - onboardedA

\* arr.sort(compareUsers): Array.prototype.sort is stable, and the
\* comparator is a consistent ordering, so the result is the one a stable
\* insertion sort gives
RECURSIVE InsertSorted(_, _)
InsertSorted(sorted, x) ==
    IF sorted = <<>> THEN <<x>>
    ELSE LET last == sorted[Len(sorted)]
         IN  IF compareUsers(last, x) <= 0 THEN Append(sorted, x)
             ELSE Append(InsertSorted(SubSeq(sorted, 1, Len(sorted) - 1), x), last)

RECURSIVE SortFrom(_, _, _)
SortFrom(arr, i, acc) ==
    IF i > Len(arr) THEN acc
    ELSE SortFrom(arr, i + 1, InsertSorted(acc, arr[i]))

sortUsers(arr) == SortFrom(arr, 1, <<>>)

\* users.filter(...) of Home.filteredUsers, before the sort
Home_filterOnly(us, term, filter) ==
    Filter(us, [i \in 1..Len(us) |->
                  Truthy(JsAnd(Home_matchesSearch(us[i], term),
                               Home_matchesType(us[i], filter)))])

Home_filteredUsers(us, term, filter) == sortUsers(Home_filterOnly(us, term, filter))

\* the property key a value is turned into: acc[user.type]
PropertyKey(v) ==
    CASE v.t = "null" -> "null"
      [] v.t = "undefined" -> "undefined"
      [] OTHER -> v.text

\* (variant of Home_userTypes: a key is set to 1 each time, not added to)
Home_userTypesNotAccumulated(us) ==
    [k \in {PropertyKey(us[i].type) : i \in 1..Len(us)} |-> 1]

\* Home.stats.userTypes: the histogram of users by acc[user.type]
Home_userTypes(us) ==
    [k \in {PropertyKey(us[i].type) : i \in 1..Len(us)} |->
        Cardinality({i \in 1..Len(us) : PropertyKey(us[i].type) = k})]

\* userTypeOptions = Object.keys(stats.userTypes)
Home_userTypeOptions(us) == DOMAIN Home_userTypes(us)

\* ------------------------------------------------------------------------
\* app/trips/page.tsx: Trips, derived values

\* matchesSearch of Trips.filteredTrips
Trips_matchesSearch(trip, term) ==
    JsOr(JsOr(JsOr(JsOr(JsOr(JsOr(JsOr(
        LowerIncludes(Opt(trip.guide, "name"), term),
        LowerIncludes(Opt(trip.guide, "surname"), term)),
        LowerIncludes(Opt(trip.driver, "name"), term)),
        LowerIncludes(Opt(trip.driver, "surname"), term)),
        RawIncludes(Opt(trip.guide, "phone"), term)),
        RawIncludes(Opt(trip.driver, "phone"), term)),
        LowerIncludes(trip.code, term)),
        LowerIncludes(Opt(trip.company, "name"), term))

\* matchesType of Trips.filteredTrips
Trips_matchesType(trip, filter) ==
    Bool(\/ filter = "all"
         \/ (filter = "finished" /\ trip.is_finished)
         \/ (filter = "cancelled" /\ trip.is_cancelled)
         \/ (filter = "active" /\ ~trip.is_finished /\ ~trip.is_cancelled))

Trips_filteredTrips(ts, term, filter) ==
    Filter(ts, [i \in 1..Len(ts) |->
                  Truthy(JsAnd(Trips_matchesSearch(ts[i], term),
                               Trips_matchesType(ts[i], filter)))])

\* trips.map((trip) => trip.guide).filter((g) => !!g)
guides(ts) ==
    LET all == [i \in 1..Len(ts) |-> ts[i].guide]
    IN  Filter(all, [i \in 1..Len(ts) |-> Truthy(all[i])])

\* (variant of findIndexById: the last entry with the id is found)
findLastIndexById(self, id) ==
    CHOOSE i \in 1..Len(self) :
        /\ self[i].id = id
        /\ \A j \in (i + 1)..Len(self) : self[j].id # id

\* self.findIndex((g) => g.id === guide.id), counted from 1
findIndexById(self, id) ==
    CHOOSE i \in 1..Len(self) :
        /\ self[i].id = id
        /\ \A j \in 1..(i - 1) : self[j].id # id

\* (variant of dedupById: the comparison is inverted, the repeats are kept)
dedupByIdKeepsRepeats(gs) ==
    Filter(gs, [i \in 1..Len(gs) |-> i # findIndexById(gs, gs[i].id)])

\* gs.filter((guide, index, self) => index === self.findIndex(...))
dedupById(gs) ==
    Filter(gs, [i \in 1..Len(gs) |-> i = findIndexById(gs, gs[i].id)])

\* const uniqueGuides = guides.filter(...)
uniqueGuides(ts) == dedupById(guides(ts))

\* matchesSearch of Trips.filteredUsers
TripsUsers_matchesSearch(user, term) ==
    JsOr(JsOr(JsOr(JsOr(LowerIncludes(user.name, term),
                        LowerIncludes(user.surname, term)),
                   RawIncludes(user.phone, term)),
              LowerIncludes(user.plate_number, term)),
         LowerIncludes(user.car_model, term))

\* matchesType of Trips.filteredUsers: (user.type || "unknown") === filterType
TripsUsers_matchesType(user, filter) ==
    Bool(filter = "all" \/ TypeIs(JsOr(user.type, Txt("unknown")), filter))

Trips_filteredUsers(ts, term, filter) ==
    LET gs == uniqueGuides(ts)
    IN  Filter(gs, [i \in 1..Len(gs) |->
                      Truthy(JsAnd(TripsUsers_matchesSearch(gs[i], term),
                                   TripsUsers_matchesType(gs[i], filter)))])

\* ------------------------------------------------------------------------
\* Numbers the statistics divide: a quotient of two counts is kept as a
\* fraction in lowest terms, 0/0 is NaN

RECURSIVE Gcd(_, _)
Gcd(a, b) == IF b = 0 THEN a ELSE Gcd(b, a % b)

NaN == [t |-> "NaN"]
Infinity == [t |-> "Infinity"]
Frac(a, b) == [t |-> "fraction", num |-> a \div Gcd(a, b), den |-> b \div Gcd(a, b)]

\* a / b, for counts a and b
Divide(a, b) ==
    IF b = 0 THEN (IF a = 0 THEN NaN ELSE Infinity) ELSE Frac(a, b)

\* x * 100
Times100(x) == IF x.t = "fraction" THEN Frac(x.num * 100, x.den) ELSE x

\* (count / total) * 100
Percent(count, total) == Times100(Divide(count, total))

\* total > 0 ? (count / total) * 100 : 0
PercentOrZero(count, total) == IF total > 0 THEN Percent(count, total) ELSE Frac(0, 1)

\* ------------------------------------------------------------------------
\* app/page.tsx: Home.stats, computed at time t, and what the tabs derive
\* from it

\* weekAgo.setDate(weekAgo.getDate() - 7): the instant at which the local
\* clock showed the same time of day seven calendar days before t
WeekAgo(t) == t - 7 * MsPerDay + runtime.weekShift

\* the callback of recentLogins
Home_isRecent(u, t) ==
    IF ~Truthy(u.last_login_at) THEN FALSE
    ELSE u.last_login_at.time > WeekAgo(t)

Home_stats(us, t) ==
    LET totalUsers == Len(us)
        activeUsers == Cardinality({i \in 1..Len(us) : us[i].is_active})
        onboardedUsers == Cardinality({i \in 1..Len(us) : us[i].is_onboarded})
        recentLogins == Cardinality({i \in 1..Len(us) : Home_isRecent(us[i], t)})
    IN  [totalUsers |-> totalUsers,
         activeUsers |-> activeUsers,
         onboardedUsers |-> onboardedUsers,
         recentLogins |-> recentLogins,
         userTypes |-> Home_userTypes(us),
         activePercentage |-> PercentOrZero(activeUsers, totalUsers),
         onboardedPercentage |-> PercentOrZero(onboardedUsers, totalUsers)]

\* overview tab: the share shown for each entry of stats.userTypes
Home_typeShares(us, t) ==
    LET stats == Home_stats(us, t)
    IN  [k \in DOMAIN stats.userTypes |-> Percent(stats.userTypes[k], stats.totalUsers)]

\* analytics tab: the share of guides with recent activity
Home_recentShare(us, t) ==
    LET stats == Home_stats(us, t)
    IN  Percent(stats.recentLogins, stats.totalUsers)

\* ------------------------------------------------------------------------
\* app/trips/page.tsx: Trips.stats, computed at time t

\* (variant of StatusCounted: is_cancelled is tested first)
StatusCountedCancelledFirst(trip) ==
    IF trip.is_cancelled THEN "cancelled"
    ELSE IF trip.is_finished THEN "finished"
    ELSE "active"

\* the branch of the tripStatuses reducer a trip takes
StatusCounted(trip) ==
    IF trip.is_finished THEN "finished"
    ELSE IF trip.is_cancelled THEN "cancelled"
    ELSE "active"

\* the text of the status Badge of a table row, and of the modal
RowBadge(trip) ==
    IF trip.is_finished THEN "Finished"
    ELSE IF trip.is_cancelled THEN "Cancelled"
    ELSE "Active"

ModalBadge(trip) ==
    IF trip.is_finished THEN "Finished"
    ELSE IF trip.is_cancelled THEN "Cancelled"
    ELSE "Active"

Trips_tripStatuses(ts) ==
    [k \in {StatusCounted(ts[i]) : i \in 1..Len(ts)} |->
        Cardinality({i \in 1..Len(ts) : StatusCounted(ts[i]) = k})]

\* sum + (trip.total_amount || 0) over the first n trips
RECURSIVE SumAmounts(_, _)
SumAmounts(ts, n) ==
    IF n = 0 THEN 0
    ELSE SumAmounts(ts, n - 1) + JsOr(ts[n].total_amount, Num(0)).n

\* (variant of IdsOf: the id is added for every trip, 0 standing for the
\* id of a missing person)
IdsOfEveryTrip(ts, field) ==
    {IF Truthy(ts[i][field]) THEN ts[i][field].id ELSE 0 : i \in 1..Len(ts)}

\* the ids added to allGuides / allDrivers
IdsOf(ts, field) ==
    {ts[i][field].id : i \in {j \in 1..Len(ts) : Truthy(ts[j][field])}}

\* the callback of recentLogins
Trips_isRecent(g, t) ==
    IF ~Truthy(g.last_login_at) THEN FALSE
    ELSE t - g.last_login_at.time <= 7 * MsPerDay

\* const type = g.type || "unknown"
TypeOrUnknown(g) == JsOr(g.type, Txt("unknown")).text

Trips_userTypes(gs) ==
    [k \in {TypeOrUnknown(gs[i]) : i \in 1..Len(gs)} |->
        Cardinality({i \in 1..Len(gs) : TypeOrUnknown(gs[i]) = k})]

Trips_stats(ts, t) ==
    LET totalTrips == Len(ts)
        finishedTrips == Cardinality({i \in 1..Len(ts) : ts[i].is_finished})
        cancelledTrips == Cardinality({i \in 1..Len(ts) : ts[i].is_cancelled})
        activeTrips == Cardinality({i \in 1..Len(ts) :
                                       ~ts[i].is_finished /\ ~ts[i].is_cancelled})
        gs == uniqueGuides(ts)
        totalUsers == Len(gs)
        activeUsers == Cardinality({i \in 1..Len(gs) : gs[i].is_active})
        onboardedUsers == Cardinality({i \in 1..Len(gs) : gs[i].is_onboarded})
        recentLogins == Cardinality({i \in 1..Len(gs) : Trips_isRecent(gs[i], t)})
    IN  [totalTrips |-> totalTrips,
         finishedTrips |-> finishedTrips,
         cancelledTrips |-> cancelledTrips,
         activeTrips |-> activeTrips,
         totalGuides |-> Cardinality(IdsOf(ts, "guide")),
         totalDrivers |-> Cardinality(IdsOf(ts, "driver")),
         tripStatuses |-> Trips_tripStatuses(ts),
         totalAmount |-> SumAmounts(ts, Len(ts)),
         finishedPercentage |-> PercentOrZero(finishedTrips, totalTrips),
         cancelledPercentage |-> PercentOrZero(cancelledTrips, totalTrips),
         totalUsers |-> totalUsers,
         activeUsers |-> activeUsers,
         onboardedUsers |-> onboardedUsers,
         recentLogins |-> recentLogins,
         userTypes |-> Trips_userTypes(gs),
         activePercentage |-> PercentOrZero(activeUsers, totalUsers),
         onboardedPercentage |-> PercentOrZero(onboardedUsers, totalUsers)]

\* ------------------------------------------------------------------------
\* The network and the life cycle of the two pages

Pages == {"home", "trips"}

\* the endpoint each page fetches
Url(q) ==
    IF q = "home" THEN "https://api.evseg.store/api/v1/guide/admin/users"
    ELSE "http://192.168.12.128:8081/api/v1/guide/admin/trips"

\* an httpGet call: pc is "fetch" while `await fetch(url)` is pending, "json"
\* while `await res.json()` is pending, and "done" once the caller's
\* continuation has run; applied tells whether that continuation wrote the
\* state of a mounted component or of one that was already torn down
NewRequest(m, q) ==
    [mount |-> m, url |-> Url(q), pc |-> "fetch", status |-> 0, applied |-> "no"]

\* messages of the errors a failed transport rejects with
TransportErrors == {"Failed to fetch", ""}

\* the `message` fields a body may carry
Messages == {Undefined, Null, Txt(""), Txt("not found")}

\* the `data` fields the endpoint at url may answer with
DataValues(url) ==
    {Undefined, Null} \cup
    {List(l) : l \in IF url = Url("home") THEN WireUsers ELSE WireTrips}

\* the bodies the endpoint at url may answer with
Bodies(url) ==
    {Unparseable(<<"<", "h", "t", "m", "l", ">">>), Json(Null)}
        \cup {Json(Envelope(Txt("ok"), d)) : d \in DataValues(url)}
        \cup {Json(Envelope(m, Undefined)) : m \in Messages}
        \cup {Json(Envelope(Txt("not found"), List(<<>>)))}

\* useState initial values of the component of page q
FreshState(q) ==
    /\ users' = <<>>
    /\ trips' = <<>>
    /\ loading' = TRUE
    /\ error' = Null
    /\ searchTerm' = <<>>
    /\ filterType' = "all"
    /\ activeTab' = (IF q = "home" THEN "overview" ELSE "trips")
    /\ selectedTrip' = Null
    /\ isModalOpen' = FALSE
    /\ outcome' = Pending

\* (variant of Mount: the effect returns a cleanup that aborts its request)
MountAborting(q) ==
    /\ q # route
    /\ mountId < MaxMounts
    /\ Len(requests) < MaxRequests
    /\ route' = q
    /\ mountId' = mountId + 1
    /\ FreshState(q)
    /\ requests' = Append([i \in 1..Len(requests) |->
                              IF requests[i].pc = "done" THEN requests[i]
                              ELSE [requests[i] EXCEPT !.pc = "done"]],
                          NewRequest(mountId + 1, q))
    /\ UNCHANGED <<call, now, runtime>>

\* Navigation to page q: the mounted component is torn down (the effect
\* registers no cleanup, so its request stays in flight), the component of q
\* is mounted and its effect runs: setLoading(true), setError(null), httpGet.
Mount(q) ==
    /\ q # route
    /\ mountId < MaxMounts
    /\ Len(requests) < MaxRequests
    /\ route' = q
    /\ mountId' = mountId + 1
    /\ FreshState(q)
    /\ requests' = Append(requests, NewRequest(mountId + 1, q))
    /\ UNCHANGED <<call, now, runtime>>

\* data || []
OrEmpty(data) == IF Truthy(data) THEN data.items ELSE <<>>

\* (variant of ErrorShown: the message is stored as it is, empty or not)
ErrorShownNoFallback(message) == Txt(message)

\* (variant of ErrorShown: the message is replaced by a fixed text)
ErrorShownFixed(message) == Txt("Unknown error")

\* e.message || "Unknown error"
ErrorShown(message) == JsOr(Txt(message), Txt("Unknown error"))

\* (variant of LoadingAfter: setLoading(false) stands at the end of the try
\* block)
LoadingAfterTryOnly(result) == result.threw

\* finally { setLoading(false) }: the value of loading once the
\* continuation has run
LoadingAfter(result) == FALSE

\* (variant of Settle: a response without records is reported as an error)
SettleEmptyIsError(i, result) ==
    LET live == requests[i].mount = mountId
        empty == ~result.threw /\ OrEmpty(result.value) = <<>>
    IN  /\ requests' = [requests EXCEPT ![i] =
                           [@ EXCEPT !.pc = "done",
                                     !.applied = IF live THEN "mounted" ELSE "unmounted"]]
        /\ IF live
           THEN /\ outcome' = result
                /\ loading' = LoadingAfter(result)
                /\ error' = (IF result.threw THEN ErrorShown(result.message)
                             ELSE IF empty THEN Txt("No data found") ELSE error)
                /\ users' = (IF ~result.threw /\ route = "home"
                             THEN OrEmpty(result.value) ELSE users)
                /\ trips' = (IF ~result.threw /\ route = "trips"
                             THEN OrEmpty(result.value) ELSE trips)
           ELSE UNCHANGED <<outcome, loading, error, users, trips>>
        /\ UNCHANGED <<route, mountId, searchTerm, filterType, activeTab,
                       selectedTrip, isModalOpen, call, now, runtime>>

\* The continuation of fetchUsers / fetchTrips after `await httpGet(...)`:
\* try { set(data || []) } catch { setError(...) } finally { setLoading(false) }.
\* The updates are applied together (one batch).  Updates of a component
\* that is no longer mounted are dropped.
Settle(i, result) ==
    LET live == requests[i].mount = mountId
    IN  /\ requests' = [requests EXCEPT ![i] =
                           [@ EXCEPT !.pc = "done",
                                     !.applied = IF live THEN "mounted" ELSE "unmounted"]]
        /\ IF live
           THEN /\ outcome' = result
                /\ loading' = LoadingAfter(result)
                /\ error' = (IF result.threw THEN ErrorShown(result.message) ELSE error)
                /\ users' = (IF ~result.threw /\ route = "home"
                             THEN OrEmpty(result.value) ELSE users)
                /\ trips' = (IF ~result.threw /\ route = "trips"
                             THEN OrEmpty(result.value) ELSE trips)
           ELSE UNCHANGED <<outcome, loading, error, users, trips>>
        /\ UNCHANGED <<route, mountId, searchTerm, filterType, activeTab,
                       selectedTrip, isModalOpen, call, now, runtime>>

\* `await fetch(url)` rejects: httpGet rejects with the same error
FetchRejects(i, message) ==
    /\ requests[i].pc = "fetch"
    /\ Settle(i, Threw(message))

\* (variant of FetchResolves: the page stops loading once the response
\* headers are in)
FetchResolvesStopsLoading(i, status) ==
    /\ requests[i].pc = "fetch"
    /\ requests' = [requests EXCEPT ![i] = [@ EXCEPT !.pc = "json", !.status = status]]
    /\ loading' = FALSE
    /\ UNCHANGED <<route, mountId, users, trips, error, searchTerm,
                   filterType, activeTab, selectedTrip, isModalOpen, outcome, call, now, runtime>>

\* `await fetch(url)` resolves with a response of the given status
FetchResolves(i, status) ==
    /\ requests[i].pc = "fetch"
    /\ requests' = [requests EXCEPT ![i] = [@ EXCEPT !.pc = "json", !.status = status]]
    /\ UNCHANGED <<route, mountId, users, trips, loading, error, searchTerm,
                   filterType, activeTab, selectedTrip, isModalOpen, outcome, call, now, runtime>>

\* the body has arrived: res.json() settles, httpGet settles, the page's
\* continuation runs
JsonSettles(i, body) ==
    /\ requests[i].pc = "json"
    /\ Settle(i, httpGet(requests[i].status, body))

\* the tabs / the search card are rendered: !loading && !error
ContentShown == route \in Pages /\ ~loading /\ ~Truthy(error)

\* the loading card is rendered: loading &&
LoadingShown == route \in Pages /\ loading

\* the error banner is rendered: error &&
ErrorBannerShown == route \in Pages /\ Truthy(error)

\* the search box, the select and Clear are rendered
FiltersShown == ContentShown /\ (route = "home" => activeTab = "users")

\* "No guides found" / "No trips found" is rendered in place of the table
EmptyStateShown ==
    /\ FiltersShown
    /\ (IF route = "home" THEN Home_filteredUsers(users, searchTerm, filterType)
        ELSE Trips_filteredTrips(trips, searchTerm, filterType)) = <<>>

\* the options of the filter select
FilterOptions ==
    IF route = "home" THEN {"all"} \cup Home_userTypeOptions(users)
    ELSE {"all", "active", "finished", "cancelled"}

\* (variant of SetSearchTerm: the effect lists searchTerm among its
\* dependencies, so it runs again)
SetSearchTermRefetch(term) ==
    /\ FiltersShown
    /\ Len(requests) < MaxRequests
    /\ searchTerm' = term
    /\ loading' = TRUE
    /\ error' = Null
    /\ requests' = Append(requests, NewRequest(mountId, route))
    /\ outcome' = Pending
    /\ UNCHANGED <<route, mountId, users, trips,
                   filterType, activeTab, selectedTrip, isModalOpen, call, now, runtime>>

\* onChange of the search box
SetSearchTerm(term) ==
    /\ FiltersShown
    /\ searchTerm' = term
    /\ UNCHANGED <<route, mountId, requests, users, trips, loading, error,
                   filterType, activeTab, selectedTrip, isModalOpen, outcome, call, now, runtime>>

\* (variant of SetFilterType: the list is sorted in place, users.sort(...),
\* instead of a filtered copy of it)
SetFilterTypeSortsInPlace(option) ==
    /\ FiltersShown
    /\ option \in FilterOptions
    /\ filterType' = option
    /\ users' = sortUsers(users)
    /\ UNCHANGED <<route, mountId, requests, trips, loading, error,
                   searchTerm, activeTab, selectedTrip, isModalOpen, outcome, call, now, runtime>>

\* onChange of the filter select
SetFilterType(option) ==
    /\ FiltersShown
    /\ option \in FilterOptions
    /\ filterType' = option
    /\ UNCHANGED <<route, mountId, requests, users, trips, loading, error,
                   searchTerm, activeTab, selectedTrip, isModalOpen, outcome, call, now, runtime>>

\* onClick of Clear
Clear ==
    /\ FiltersShown
    /\ searchTerm' = <<>>
    /\ filterType' = "all"
    /\ UNCHANGED <<route, mountId, requests, users, trips, loading, error,
                   activeTab, selectedTrip, isModalOpen, outcome, call, now, runtime>>

HomeTabs == {"overview", "users", "analytics"}

\* onValueChange of the dashboard's Tabs
SetActiveTab(tab) ==
    /\ ContentShown
    /\ route = "home"
    /\ tab \in HomeTabs
    /\ activeTab' = tab
    /\ UNCHANGED <<route, mountId, requests, users, trips, loading, error,
                   searchTerm, filterType, selectedTrip, isModalOpen, outcome, call, now, runtime>>

\* (variant of handleRowClick: the click fetches the clicked trip again)
handleRowClickFetches(k) ==
    /\ ContentShown
    /\ route = "trips"
    /\ k \in 1..Len(Trips_filteredTrips(trips, searchTerm, filterType))
    /\ Len(requests) < MaxRequests
    /\ selectedTrip' = Trips_filteredTrips(trips, searchTerm, filterType)[k]
    /\ isModalOpen' = TRUE
    /\ requests' = Append(requests, NewRequest(mountId, route))
    /\ UNCHANGED <<route, mountId, users, trips, loading, error,
                   searchTerm, filterType, activeTab, outcome, call, now, runtime>>

\* onClick of row k of the trips table
handleRowClick(k) ==
    /\ ContentShown
    /\ route = "trips"
    /\ k \in 1..Len(Trips_filteredTrips(trips, searchTerm, filterType))
    /\ selectedTrip' = Trips_filteredTrips(trips, searchTerm, filterType)[k]
    /\ isModalOpen' = TRUE
    /\ UNCHANGED <<route, mountId, requests, users, trips, loading, error,
                   searchTerm, filterType, activeTab, outcome, call, now, runtime>>

\* onOpenChange of the Dialog, which is setIsModalOpen: the dialog asks to close
DialogOnOpenChange(open) ==
    /\ route = "trips"
    /\ isModalOpen
    /\ isModalOpen' = open
    /\ UNCHANGED <<route, mountId, requests, users, trips, loading, error,
                   searchTerm, filterType, activeTab, selectedTrip, outcome, call, now, runtime>>

\* no httpGet call is observed on its own
NoCall == [pc |-> "none", status |-> 0, body |-> NoBody, result |-> Pending]

Init ==
    /\ route = "none"
    /\ mountId = 0
    /\ requests = <<>>
    /\ users = <<>>
    /\ trips = <<>>
    /\ loading = TRUE
    /\ error = Null
    /\ searchTerm = <<>>
    /\ filterType = "all"
    /\ activeTab = "overview"
    /\ selectedTrip = Null
    /\ isModalOpen = FALSE
    /\ outcome = Pending
    /\ call = NoCall
    /\ now = Epoch
    /\ runtime \in EngineRuntimes

Next ==
    \/ \E q \in Pages : Mount(q)
    \/ \E i \in 1..Len(requests), m \in TransportErrors : FetchRejects(i, m)
    \/ \E i \in 1..Len(requests), s \in WireStatuses : FetchResolves(i, s)
    \/ \E i \in 1..Len(requests) : \E b \in Bodies(requests[i].url) : JsonSettles(i, b)
    \/ \E term \in SearchTerms : SetSearchTerm(term)
    \/ \E o \in FilterOptions : SetFilterType(o)
    \/ Clear
    \/ \E tab \in HomeTabs : SetActiveTab(tab)
    \/ \E k \in 1..MaxRecords : handleRowClick(k)
    \/ DialogOnOpenChange(FALSE)

Spec == Init /\ [][Next]_vars

\* request i takes its next step: the transport rejects or answers, or the
\* body of an answered request is read to its end
RequestProgresses(i) ==
    /\ i \in 1..Len(requests)
    /\ \/ \E m \in TransportErrors : FetchRejects(i, m)
       \/ \E s \in WireStatuses : FetchResolves(i, s)
       \/ \E b \in Bodies(requests[i].url) : JsonSettles(i, b)

\* navigation and the network, without the events of the loaded page
NextLifeCycle ==
    \/ \E q \in Pages : Mount(q)
    \/ \E i \in 1..Len(requests), m \in TransportErrors : FetchRejects(i, m)
    \/ \E i \in 1..Len(requests), s \in WireStatuses : FetchResolves(i, s)
    \/ \E i \in 1..Len(requests) : \E b \in Bodies(requests[i].url) : JsonSettles(i, b)

\* the program before its first mount, on one engine
InitSettling ==
    /\ Init
    /\ runtime.engine = "V8 11"

\* the behaviours in which every request settles: no request is left
\* pending for ever by the network, and the continuation of a settled
\* promise is run by the event loop
SpecSettling ==
    /\ InitSettling
    /\ [][NextLifeCycle]_vars
    /\ \A i \in 1..MaxRequests : WF_vars(RequestProgresses(i))

\* ------------------------------------------------------------------------
\* httpGet on its own: one call, from the response to the outcome

\* the bodies of either endpoint, with every message beside every data
HttpBodies ==
    {Unparseable(chars) : chars \in NotJson} \cup {Json(Null)} \cup
    {Json(Envelope(m, d)) : m \in Messages \cup {Txt("ok")},
                            d \in DataValues(Url("home")) \cup DataValues(Url("trips"))}

\* `await fetch(url)` has resolved with a response
InitHttp ==
    /\ route = "none"
    /\ mountId = 0
    /\ requests = <<>>
    /\ users = <<>>
    /\ trips = <<>>
    /\ loading = TRUE
    /\ error = Null
    /\ searchTerm = <<>>
    /\ filterType = "all"
    /\ activeTab = "overview"
    /\ selectedTrip = Null
    /\ isModalOpen = FALSE
    /\ outcome = Pending
    /\ now = Epoch
    /\ runtime \in EngineRuntimes
    /\ call \in {[pc |-> "json", status |-> s, body |-> b, result |-> Pending] :
                    s \in Statuses, b \in HttpBodies}

\* the rest of httpGet runs: lines 16-26
HttpGetSettles ==
    /\ call.pc = "json"
    /\ call' = [call EXCEPT !.pc = "done", !.result = httpGet(call.status, call.body)]
    /\ UNCHANGED <<route, mountId, requests, users, trips, loading, error,
                   searchTerm, filterType, activeTab, selectedTrip, isModalOpen,
                   outcome, now, runtime>>

NextHttp == HttpGetSettles

SpecHttp == InitHttp /\ [][NextHttp]_vars

\* ------------------------------------------------------------------------
\* The derived views on their own: a page whose fetch has succeeded

\* the request of a page whose fetch returned the list l
ReturnedRequest(q, l) ==
    [NewRequest(1, q) EXCEPT !.pc = "done", !.status = 200, !.applied = "mounted"]

InitView ==
    \E q \in Pages :
        \E l \in (IF q = "home" THEN ViewUsers ELSE ViewTrips) :
            /\ route = q
            /\ mountId = 1
            /\ requests = <<ReturnedRequest(q, l)>>
            /\ users = (IF q = "home" THEN l ELSE <<>>)
            /\ trips = (IF q = "trips" THEN l ELSE <<>>)
            /\ loading = FALSE
            /\ error = Null
            /\ searchTerm = <<>>
            /\ filterType = "all"
            /\ activeTab = (IF q = "home" THEN "overview" ELSE "trips")
            /\ selectedTrip = Null
            /\ isModalOpen = FALSE
            /\ outcome = Returned(List(l))
            /\ call = NoCall
            /\ now = Epoch
            /\ runtime \in EngineRuntimes \cap ZoneRuntimes

NextView ==
    \/ \E term \in ViewSearchTerms : SetSearchTerm(term)
    \/ \E o \in FilterOptions : SetFilterType(o)
    \/ Clear
    \/ \E tab \in HomeTabs : SetActiveTab(tab)
    \/ \E k \in 1..MaxRecords : handleRowClick(k)
    \/ DialogOnOpenChange(FALSE)

SpecView == InitView /\ [][NextView]_vars

\* ------------------------------------------------------------------------
\* The orderings, the guide set and the statistics on their own: a page
\* that has loaded a list of up to MaxListed records, with the events that
\* do not involve the search box

\* a user without a reward who is found by every search of the empty term:
\* with UserTwin a pair of different users equal on both keys of the
\* ordering
UserNoReward == MkUser(5, Str(<<"b">>), Null, Null, Null, Null,
                       Txt("guide"), TRUE, TRUE, Null, Null)

ListedUsers == ListsOf(UserPool \cup {UserNoReward}, MaxListed)
ListedTrips == ListsOf(TripPool, MaxListed)

InitLists ==
    \E q \in Pages :
        \E l \in (IF q = "home" THEN ListedUsers ELSE ListedTrips) :
            /\ route = q
            /\ mountId = 1
            /\ requests = <<ReturnedRequest(q, l)>>
            /\ users = (IF q = "home" THEN l ELSE <<>>)
            /\ trips = (IF q = "trips" THEN l ELSE <<>>)
            /\ loading = FALSE
            /\ error = Null
            /\ searchTerm = <<>>
            /\ filterType = "all"
            /\ activeTab = (IF q = "home" THEN "overview" ELSE "trips")
            /\ selectedTrip = Null
            /\ isModalOpen = FALSE
            /\ outcome = Returned(List(l))
            /\ call = NoCall
            /\ now \in Clock
            /\ runtime \in EngineRuntimes \cap ZoneRuntimes

NextLists ==
    \/ \E o \in FilterOptions : SetFilterType(o)
    \/ \E tab \in HomeTabs : SetActiveTab(tab)
    \/ \E k \in 1..MaxListed : handleRowClick(k)
    \/ DialogOnOpenChange(FALSE)

SpecLists == InitLists /\ [][NextLists]_vars

\* ------------------------------------------------------------------------
\* The recent-login windows under the clock: a page that has loaded a list
\* of up to MaxRecords records, at each instant of Clock and in a week with
\* and without a change of the local clock

InitClock ==
    \E q \in Pages :
        \E l \in (IF q = "home" THEN ViewUsers ELSE ViewTrips) :
            /\ route = q
            /\ mountId = 1
            /\ requests = <<ReturnedRequest(q, l)>>
            /\ users = (IF q = "home" THEN l ELSE <<>>)
            /\ trips = (IF q = "trips" THEN l ELSE <<>>)
            /\ loading = FALSE
            /\ error = Null
            /\ searchTerm = <<>>
            /\ filterType = "all"
            /\ activeTab = (IF q = "home" THEN "overview" ELSE "trips")
            /\ selectedTrip = Null
            /\ isModalOpen = FALSE
            /\ outcome = Returned(List(l))
            /\ call = NoCall
            /\ now \in Clock
            /\ runtime \in ZoneRuntimes

SpecClock == InitClock /\ [][NextLists]_vars

\* ========================================================================
\* Properties

\* the requests issued by the mounted component
LiveRequests == {i \in 1..Len(requests) : requests[i].mount = mountId}

\* the record store of the mounted page
Records == IF route = "home" THEN users ELSE trips

\* ------------------------------------------------------------------------
\* C1: for a response whose status is not a success status httpGet never
\* returns a value: it throws the `message` of the JSON body when the body
\* parses to an object carrying a (non-empty) message, and the text
\* "HTTP error! status: <code>" otherwise (unparseable body, JSON null, no
\* message, null or empty message).

C1_GenericText(status) ==
    CASE status = 300 -> "HTTP error! status: 300"
      [] status = 404 -> "HTTP error! status: 404"
      [] status = 500 -> "HTTP error! status: 500"
      [] OTHER -> "?"

C1_CarriesMessage(body) ==
    /\ body.json
    /\ body.value.t = "object"
    /\ body.value.message.t = "string"
    /\ body.value.message.text # ""

C1_ErrorResponseFails ==
    (call.pc = "done" /\ call.status \notin 200..299) =>
        /\ call.result.threw
        /\ call.result.message =
              (IF C1_CarriesMessage(call.body) THEN call.body.value.message.text
               ELSE C1_GenericText(call.status))

\* 404 with {message: "not found"} has failed with "not found"
C1_Witness ==
    /\ call.pc = "done"
    /\ call.status = 404
    /\ call.body = Json(Envelope(Txt("not found"), Undefined))
    /\ call.result = Threw("not found")

\* ------------------------------------------------------------------------
\* C2: for a response with a success status whose body is an envelope
\* {message, data}, httpGet returns exactly the data field (null when data
\* is null) and nothing else of the envelope.

C2_SuccessReturnsData ==
    (call.pc = "done" /\ call.status \in 200..299
        /\ call.body.json /\ call.body.value.t = "object") =>
        /\ ~call.result.threw
        /\ call.result.value = call.body.value.data

\* 200 with {message: "ok", data: [one user]} has returned [that user]
C2_Witness ==
    /\ call.pc = "done"
    /\ call.status = 200
    /\ call.body = Json(Envelope(Txt("ok"), List(<<UserAb>>)))
    /\ call.result = Returned(List(<<UserAb>>))

\* ------------------------------------------------------------------------
\* C3: each page follows loading -> (success | error).  A mount starts in
\* loading with no error; the page leaves loading exactly when its fetch
\* settles, to success (error null, the records are the delivered list) when
\* httpGet returned and to error (a non-empty error string) when it threw;
\* once it has left loading it never loads again and its error never
\* changes, for the lifetime of the mount.

C3_StateMachine ==
    [][/\ (mountId' # mountId) => (loading' /\ error' = Null /\ outcome' = Pending)
       /\ (mountId' = mountId /\ mountId > 0) =>
            /\ (loading /\ ~loading') => (outcome = Pending /\ outcome' # Pending)
            /\ (outcome = Pending /\ outcome' # Pending) =>
                 /\ ~loading'
                 /\ IF outcome'.threw
                    THEN error'.t = "string" /\ error'.text # ""
                    ELSE /\ error' = Null
                         /\ Records' = (IF outcome'.value.t = "array"
                                        THEN outcome'.value.items ELSE <<>>)
            /\ ~loading => (~loading' /\ error' = error)
      ]_vars

\* the dashboard has reached success with records, and the user has searched
C3_Witness ==
    /\ route = "home"
    /\ ~loading
    /\ error = Null
    /\ users # <<>>
    /\ searchTerm # <<>>

\* ------------------------------------------------------------------------
\* C4 as stated: every mount issues exactly one request, and no two fetches
\* for the same page are ever in flight at once.

C4_OnePerMountAndPage ==
    /\ \A m \in 1..mountId :
          Cardinality({i \in 1..Len(requests) : requests[i].mount = m}) = 1
    /\ \A i, j \in 1..Len(requests) :
          (i # j /\ requests[i].pc # "done" /\ requests[j].pc # "done")
              => requests[i].url # requests[j].url

\* C4, amended: every mount issues exactly one request (none after a
\* failure, after a success or on a search, filter, tab or row-click event),
\* so no two fetches of the same mount are ever in flight at once.

C4_OneRequestPerMount ==
    /\ \A m \in 1..mountId :
          Cardinality({i \in 1..Len(requests) : requests[i].mount = m}) = 1
    /\ \A i, j \in 1..Len(requests) :
          (i # j /\ requests[i].pc # "done" /\ requests[j].pc # "done")
              => requests[i].mount # requests[j].mount

\* the fetch of the mounted page has failed, or has succeeded and the user
\* has searched, and the mount still has its one request
C4_Witness ==
    /\ Cardinality(LiveRequests) = 1
    /\ \A i \in LiveRequests : requests[i].pc = "done"
    /\ outcome.threw \/ searchTerm # <<>>
    /\ mountId > 1

\* ------------------------------------------------------------------------
\* C5: the fetch started at mount is not cancelled on unmount.  Tearing the
\* component down leaves every request as it was, and when a request of a
\* torn-down component settles, its completion handler runs and its writes
\* of records/error/loading go to the unmounted component (the mounted
\* page's state is not touched).

C5_NotCancelledOnUnmount ==
    [][/\ (mountId' # mountId) =>
            \A i \in 1..Len(requests) : requests'[i] = requests[i]
       /\ \A i \in 1..Len(requests) :
            (requests[i].pc # "done" /\ requests'[i].pc = "done"
                /\ requests[i].mount # mountId)
              => /\ requests'[i].applied = "unmounted"
                 /\ UNCHANGED <<users, trips, loading, error, outcome>>
      ]_vars

\* a response has arrived after its component was torn down
C5_Witness ==
    \E i \in 1..Len(requests) :
        /\ requests[i].mount < mountId
        /\ requests[i].pc = "done"
        /\ requests[i].applied = "unmounted"

\* ------------------------------------------------------------------------
\* C6: there is no timeout.  As long as the request of the mounted page has
\* neither resolved nor rejected, the page is loading, whatever else
\* happens; a request that never settles leaves it loading forever.

C6_LoadingWhilePending ==
    \A i \in LiveRequests : requests[i].pc # "done" => (loading /\ error = Null)

\* the page still loads while an earlier mount's request has come and gone
C6_Witness ==
    /\ \E i \in LiveRequests : requests[i].pc = "json"
    /\ \E j \in 1..Len(requests) : requests[j].applied = "unmounted"
    /\ loading

\* ------------------------------------------------------------------------
\* C7 as stated: the error string the page stores is exactly the failure
\* message the fetch client produced, for every failure message.

C7_Verbatim ==
    outcome.threw => error = Txt(outcome.message)

\* C7, amended: every failure ends in the one error state (not loading, no
\* records), and the error string the page stores is exactly the failure
\* message when that message is not empty, and "Unknown error" when it is.

C7_VerbatimUnlessEmpty ==
    outcome.threw =>
        /\ ~loading
        /\ users = <<>> /\ trips = <<>>
        /\ error = (IF outcome.message # "" THEN Txt(outcome.message)
                    ELSE Txt("Unknown error"))

\* the page shows the message of an error response
C7_Witness ==
    /\ outcome = Threw("not found")
    /\ error = Txt("not found")

\* ------------------------------------------------------------------------
\* Search: what the search is meant to do, stated apart from the code

\* obj.field of a record that may be missing
FieldOf(obj, field) == IF obj.t = "object" THEN obj[field] ELSE Undefined

\* two characters that are the same letter, whatever their case
SameLetter(c, d) ==
    \/ c = d
    \/ {c, d} \in {{"a", "A"}, {"b", "B"}, {"c", "C"}}

\* the field is a string and the term occurs in it, case ignored
ContainsIgnoringCase(v, term) ==
    /\ v.t = "string"
    /\ \E off \in 0..(Len(v.chars) - Len(term)) :
          \A k \in 1..Len(term) : SameLetter(v.chars[off + k], term[k])

\* the field is a string and the term occurs in it, character for character
ContainsAsTyped(v, term) ==
    /\ v.t = "string"
    /\ \E off \in 0..(Len(v.chars) - Len(term)) :
          \A k \in 1..Len(term) : v.chars[off + k] = term[k]

\* the searched fields of a dashboard user, of a trip, and of a guide of the
\* trips page: the text fields, and the phone fields
UserTextFields(u) == {u.name, u.surname, u.plate_number}
UserPhoneFields(u) == {u.phone}
TripTextFields(tr) ==
    {FieldOf(tr.guide, "name"), FieldOf(tr.guide, "surname"),
     FieldOf(tr.driver, "name"), FieldOf(tr.driver, "surname"),
     tr.code, FieldOf(tr.company, "name")}
TripPhoneFields(tr) == {FieldOf(tr.guide, "phone"), FieldOf(tr.driver, "phone")}
GuideTextFields(u) == UserTextFields(u) \cup {u.car_model}

\* every value the type filter can be given
AllFilters == {"all", "guide", "driver", "unknown", "", "active", "finished", "cancelled"}

\* ------------------------------------------------------------------------
\* C8 as stated: with an empty search term and filterType "all" the
\* filtered list contains every record of the list (records whose searched
\* fields are all missing included), on the dashboard users list, the trips
\* list and the trips-page guides list.

C8_EmptyTermMatchesAll ==
    (searchTerm = <<>> /\ filterType = "all") =>
        /\ route = "home" =>
              Len(Home_filteredUsers(users, searchTerm, filterType)) = Len(users)
        /\ route = "trips" =>
              /\ Len(Trips_filteredTrips(trips, searchTerm, filterType)) = Len(trips)
              /\ Len(Trips_filteredUsers(trips, searchTerm, filterType))
                    = Len(uniqueGuides(trips))

\* ------------------------------------------------------------------------
\* C9 as stated: a record matches the search whenever some searched field,
\* a phone field included, contains the term when both are compared
\* ignoring case.

C9_CaseInsensitiveEverywhere ==
    /\ route = "home" =>
          \A i \in 1..Len(users) :
             (\E v \in UserTextFields(users[i]) \cup UserPhoneFields(users[i]) :
                  ContainsIgnoringCase(v, searchTerm))
                => Truthy(Home_matchesSearch(users[i], searchTerm))
    /\ route = "trips" =>
          /\ \A i \in 1..Len(trips) :
                (\E v \in TripTextFields(trips[i]) \cup TripPhoneFields(trips[i]) :
                     ContainsIgnoringCase(v, searchTerm))
                   => Truthy(Trips_matchesSearch(trips[i], searchTerm))
          /\ \A i \in 1..Len(uniqueGuides(trips)) :
                LET g == uniqueGuides(trips)[i]
                IN  (\E v \in GuideTextFields(g) \cup UserPhoneFields(g) :
                         ContainsIgnoringCase(v, searchTerm))
                       => Truthy(TripsUsers_matchesSearch(g, searchTerm))

\* C9, amended: a record matches the search whenever some searched field
\* other than a phone (name, surname, plate number, car model, trip code,
\* company name) contains the term when both are compared ignoring case, or
\* a phone field contains the term exactly as typed.

C9_CaseInsensitiveExceptPhone ==
    /\ route = "home" =>
          \A i \in 1..Len(users) :
             (\/ \E v \in UserTextFields(users[i]) : ContainsIgnoringCase(v, searchTerm)
              \/ \E v \in UserPhoneFields(users[i]) : ContainsAsTyped(v, searchTerm))
                => Truthy(Home_matchesSearch(users[i], searchTerm))
    /\ route = "trips" =>
          /\ \A i \in 1..Len(trips) :
                (\/ \E v \in TripTextFields(trips[i]) : ContainsIgnoringCase(v, searchTerm)
                 \/ \E v \in TripPhoneFields(trips[i]) : ContainsAsTyped(v, searchTerm))
                   => Truthy(Trips_matchesSearch(trips[i], searchTerm))
          /\ \A i \in 1..Len(uniqueGuides(trips)) :
                LET g == uniqueGuides(trips)[i]
                IN  (\/ \E v \in GuideTextFields(g) : ContainsIgnoringCase(v, searchTerm)
                     \/ \E v \in UserPhoneFields(g) : ContainsAsTyped(v, searchTerm))
                       => Truthy(TripsUsers_matchesSearch(g, searchTerm))

\* the user named "Ab" is found by the term "ab"
C9_Witness ==
    /\ route = "home"
    /\ users = <<UserAb>>
    /\ searchTerm = <<"a", "b">>
    /\ Home_filteredUsers(users, searchTerm, filterType) = <<UserAb>>

\* ------------------------------------------------------------------------
\* C10: for every record list and every filterType, a non-empty search term
\* that occurs (case ignored) in none of the searched fields of any record
\* yields an empty filtered list, on the dashboard users list, the trips
\* list and the trips-page guides list.

C10_AbsentTermFindsNothing ==
    searchTerm # <<>> => \A f \in AllFilters :
        /\ (/\ route = "home"
            /\ \A i \in 1..Len(users) :
                  \A v \in UserTextFields(users[i]) \cup UserPhoneFields(users[i]) :
                      ~ContainsIgnoringCase(v, searchTerm))
              => Home_filteredUsers(users, searchTerm, f) = <<>>
        /\ (/\ route = "trips"
            /\ \A i \in 1..Len(trips) :
                  \A v \in TripTextFields(trips[i]) \cup TripPhoneFields(trips[i]) :
                      ~ContainsIgnoringCase(v, searchTerm))
              => Trips_filteredTrips(trips, searchTerm, f) = <<>>
        /\ (/\ route = "trips"
            /\ \A i \in 1..Len(uniqueGuides(trips)) :
                  \A v \in GuideTextFields(uniqueGuides(trips)[i])
                              \cup UserPhoneFields(uniqueGuides(trips)[i]) :
                      ~ContainsIgnoringCase(v, searchTerm))
              => Trips_filteredUsers(trips, searchTerm, f) = <<>>

\* the letters of "ba" occur in the user named "Ab", the term does not
C10_Witness ==
    /\ route = "home"
    /\ users = <<UserAb>>
    /\ searchTerm = <<"b", "a">>
    /\ Home_filteredUsers(users, searchTerm, filterType) = <<>>

\* ------------------------------------------------------------------------
\* C11: the combined filter is the conjunction of search match and category
\* match, and "all" imposes no category restriction.  For every record list
\* and term: a record is in the result exactly as often as it is in the list
\* with both predicates true; under "all" the result holds exactly the
\* records matching the search; under any other filterType it holds no
\* record that the result under "all" does not hold.

\* how often record r occurs in the sequence
CountIn(seq, r) == Cardinality({i \in 1..Len(seq) : seq[i] = r})

\* the elements of the sequence
Elements(seq) == {seq[i] : i \in 1..Len(seq)}

C11_FilterIsConjunction ==
    /\ route = "home" =>
          /\ \A r \in Elements(users), f \in AllFilters :
                CountIn(Home_filteredUsers(users, searchTerm, f), r)
                  = Cardinality({i \in 1..Len(users) :
                        /\ users[i] = r
                        /\ Truthy(Home_matchesSearch(users[i], searchTerm))
                        /\ Truthy(Home_matchesType(users[i], f))})
          /\ \A r \in Elements(users) :
                CountIn(Home_filteredUsers(users, searchTerm, "all"), r)
                  = Cardinality({i \in 1..Len(users) :
                        users[i] = r /\ Truthy(Home_matchesSearch(users[i], searchTerm))})
          /\ \A f \in AllFilters :
                Elements(Home_filteredUsers(users, searchTerm, f))
                  \subseteq Elements(Home_filteredUsers(users, searchTerm, "all"))
    /\ route = "trips" =>
          /\ \A r \in Elements(trips), f \in AllFilters :
                CountIn(Trips_filteredTrips(trips, searchTerm, f), r)
                  = Cardinality({i \in 1..Len(trips) :
                        /\ trips[i] = r
                        /\ Truthy(Trips_matchesSearch(trips[i], searchTerm))
                        /\ Truthy(Trips_matchesType(trips[i], f))})
          /\ \A r \in Elements(trips) :
                CountIn(Trips_filteredTrips(trips, searchTerm, "all"), r)
                  = Cardinality({i \in 1..Len(trips) :
                        trips[i] = r /\ Truthy(Trips_matchesSearch(trips[i], searchTerm))})
          /\ \A f \in AllFilters :
                Elements(Trips_filteredTrips(trips, searchTerm, f))
                  \subseteq Elements(Trips_filteredTrips(trips, searchTerm, "all"))

\* a guide and a driver both match the term "a"; under "all" both are
\* listed, under "driver" the driver alone
C11_Witness ==
    /\ route = "home"
    /\ users = <<UserAb, UserTwin>>
    /\ searchTerm = <<"a">>
    /\ filterType = "driver"
    /\ Home_filteredUsers(users, searchTerm, filterType) = <<UserTwin>>
    /\ Elements(Home_filteredUsers(users, searchTerm, "all")) = {UserAb, UserTwin}

\* ------------------------------------------------------------------------
\* C12: the dashboard users list is the filtered users ordered by
\* reward_amount descending with a missing reward treated as 0, ties broken
\* by onboarded users before the others, and users equal on both keys kept
\* in their input order; the sorted list is a permutation of the filtered
\* list.

\* the reward a user is ordered by
RewardOrZero(u) == IF u.reward_amount.t = "number" THEN u.reward_amount.n ELSE 0

\* the two keys of the ordering
SortKey(u) == <<RewardOrZero(u), u.is_onboarded>>

\* the records of the sequence that carry the key, in their order
WithKey(seq, k) == Filter(seq, [i \in 1..Len(seq) |-> SortKey(seq[i]) = k])

\* u may stand before v
MayPrecede(u, v) ==
    \/ RewardOrZero(u) > RewardOrZero(v)
    \/ /\ RewardOrZero(u) = RewardOrZero(v)
       /\ (u.is_onboarded \/ ~v.is_onboarded)

C12_SortedStablePermutation ==
    route = "home" => \A f \in AllFilters :
        LET before == Home_filterOnly(users, searchTerm, f)
            after == Home_filteredUsers(users, searchTerm, f)
        IN  /\ Len(after) = Len(before)
            /\ \A r \in Elements(before) \cup Elements(after) :
                  CountIn(after, r) = CountIn(before, r)
            /\ \A i, j \in 1..Len(after) : i < j => MayPrecede(after[i], after[j])
            /\ \A i \in 1..Len(before) :
                  WithKey(after, SortKey(before[i])) = WithKey(before, SortKey(before[i]))

\* a user without a reward and one with reward 0, both onboarded, stand
\* after the user with reward 5 and keep the order they came in
C12_Witness ==
    /\ route = "home"
    /\ users = <<UserNoReward, UserAb, UserTwin>>
    /\ filterType = "all"
    /\ activeTab = "users"
    /\ Home_filterOnly(users, searchTerm, filterType) = users
    /\ SortKey(UserNoReward) = SortKey(UserTwin)
    /\ Home_filteredUsers(users, searchTerm, filterType)
          = <<UserAb, UserNoReward, UserTwin>>

\* ------------------------------------------------------------------------
\* C13 as stated: on the trips page the guides list derived from the trips
\* (Trips.filteredUsers) is ordered by reward_amount descending with a
\* missing reward as 0, ties broken onboarded-first.

C13_GuidesSorted ==
    route = "trips" =>
        LET listed == Trips_filteredUsers(trips, searchTerm, filterType)
        IN  \A i, j \in 1..Len(listed) : i < j => MayPrecede(listed[i], listed[j])

\* ------------------------------------------------------------------------
\* C14 as stated: every percentage the pages compute or display (active,
\* onboarded, finished, cancelled, per-type share, recent-login share)
\* equals 0 when its total is 0 and count/total*100 otherwise; none is
\* undefined (0/0) when the record list is empty.

\* the percentage of count in total that the statement asks for
PercentageOf(count, total) ==
    IF total = 0 THEN Frac(0, 1) ELSE Frac(count * 100, total)

C14_PercentagesGuarded ==
    /\ (route = "home" /\ ContentShown) =>
          LET stats == Home_stats(users, now)
          IN  /\ stats.activePercentage
                    = PercentageOf(stats.activeUsers, stats.totalUsers)
              /\ stats.onboardedPercentage
                    = PercentageOf(stats.onboardedUsers, stats.totalUsers)
              /\ activeTab = "overview" =>
                    \A k \in DOMAIN stats.userTypes :
                        Home_typeShares(users, now)[k]
                            = PercentageOf(stats.userTypes[k], stats.totalUsers)
              /\ activeTab = "analytics" =>
                    Home_recentShare(users, now)
                        = PercentageOf(stats.recentLogins, stats.totalUsers)
    /\ (route = "trips" /\ ContentShown) =>
          LET stats == Trips_stats(trips, now)
          IN  /\ stats.finishedPercentage
                    = PercentageOf(stats.finishedTrips, stats.totalTrips)
              /\ stats.cancelledPercentage
                    = PercentageOf(stats.cancelledTrips, stats.totalTrips)
              /\ stats.activePercentage
                    = PercentageOf(stats.activeUsers, stats.totalUsers)
              /\ stats.onboardedPercentage
                    = PercentageOf(stats.onboardedUsers, stats.totalUsers)

\* ------------------------------------------------------------------------
\* C15 as stated: in the type histogram every user with a missing (null,
\* undefined or empty) type is counted under the key "unknown", on the
\* dashboard as on the trips page, and no other key is created for a
\* missing type.

\* the type of the user is null, undefined or the empty string
TypeMissing(u) == u.type.t \in {"null", "undefined"} \/ u.type = Txt("")

\* the histogram counts under "unknown" the users of the list whose type is
\* missing or is "unknown", and has no key that stands for a missing type
BucketsMissingAsUnknown(histogram, us) ==
    LET unknown == {i \in 1..Len(us) : TypeMissing(us[i]) \/ us[i].type = Txt("unknown")}
    IN  /\ DOMAIN histogram \cap {"null", "undefined", ""} = {}
        /\ unknown # {} =>
              /\ "unknown" \in DOMAIN histogram
              /\ histogram["unknown"] = Cardinality(unknown)

C15_MissingTypeIsUnknown ==
    /\ route = "home" => BucketsMissingAsUnknown(Home_stats(users, now).userTypes, users)
    /\ route = "trips" =>
          BucketsMissingAsUnknown(Trips_stats(trips, now).userTypes, uniqueGuides(trips))

\* ------------------------------------------------------------------------
\* C16: the recent-login count counts exactly the users whose last_login_at
\* falls within the last 7 days of the evaluation time, on both pages: a
\* user with a missing last_login_at is not counted, a last_login_at more
\* than 7 days before now (7 days and 1 second) is not counted, one less
\* than 7 days before now (exactly 6 days) is counted.  A last_login_at
\* exactly 7 days before now is left to either side.

\* how long before `at` the user logged in last; the user has logged in
AgeOfLogin(u, at) == at - u.last_login_at.time
HasLoggedIn(u) == u.last_login_at.t = "isodate"

\* the count lies between the logins less than 7 days old and those at most
\* 7 days old
WithinSevenDays(count, us, at) ==
    /\ count >= Cardinality({i \in 1..Len(us) :
                    HasLoggedIn(us[i]) /\ AgeOfLogin(us[i], at) < 7 * MsPerDay})
    /\ count <= Cardinality({i \in 1..Len(us) :
                    HasLoggedIn(us[i]) /\ AgeOfLogin(us[i], at) <= 7 * MsPerDay})

\* the trips page's part
C16_TripsWindow ==
    route = "trips" =>
        LET gs == uniqueGuides(trips)
        IN  /\ WithinSevenDays(Trips_stats(trips, now).recentLogins, gs, now)
            /\ \A i \in 1..Len(gs) :
                  /\ ~HasLoggedIn(gs[i]) => ~Trips_isRecent(gs[i], now)
                  /\ HasLoggedIn(gs[i]) =>
                        /\ AgeOfLogin(gs[i], now) > 7 * MsPerDay
                              => ~Trips_isRecent(gs[i], now)
                        /\ AgeOfLogin(gs[i], now) < 7 * MsPerDay
                              => Trips_isRecent(gs[i], now)

\* the dashboard's part
C16_HomeWindow ==
    route = "home" =>
        /\ WithinSevenDays(Home_stats(users, now).recentLogins, users, now)
        /\ \A i \in 1..Len(users) :
              /\ ~HasLoggedIn(users[i]) => ~Home_isRecent(users[i], now)
              /\ HasLoggedIn(users[i]) =>
                    /\ AgeOfLogin(users[i], now) > 7 * MsPerDay
                          => ~Home_isRecent(users[i], now)
                    /\ AgeOfLogin(users[i], now) < 7 * MsPerDay
                          => Home_isRecent(users[i], now)

C16_RecentLoginWindow ==
    /\ C16_HomeWindow
    /\ C16_TripsWindow

\* ------------------------------------------------------------------------
\* C17: on the trips page the guide set is rebuilt from the trips list by
\* deduplicating on id, first occurrence winning: the deduplicated list has
\* no two entries with the same id, contains the id of every trip's guide,
\* keeps for each id the guide record of the earliest trip carrying it, in
\* trip order, and every guide statistic (totalUsers, activeUsers,
\* onboardedUsers, recentLogins, userTypes) is computed on that list.

\* the trips that have a guide
Guided(ts) == {k \in 1..Len(ts) : ts[k].guide.t = "object"}

\* the trips that are the earliest to carry their guide's id
FirstCarriers(ts) ==
    {k \in Guided(ts) : \A e \in Guided(ts) : e < k => ts[e].guide.id # ts[k].guide.id}

C17_GuidesDeduplicatedById ==
    route = "trips" =>
        LET gs == uniqueGuides(trips)
            first == FirstCarriers(trips)
            stats == Trips_stats(trips, now)
        IN  /\ \A i, j \in 1..Len(gs) : i # j => gs[i].id # gs[j].id
            /\ {gs[i].id : i \in 1..Len(gs)} = {trips[k].guide.id : k \in Guided(trips)}
            /\ Len(gs) = Cardinality(first)
            /\ \A i \in 1..Len(gs) :
                  \E k \in first :
                      /\ trips[k].guide = gs[i]
                      /\ Cardinality({e \in first : e < k}) = i - 1
            /\ stats.totalUsers = Cardinality(first)
            /\ stats.activeUsers = Cardinality({k \in first : trips[k].guide.is_active})
            /\ stats.onboardedUsers
                  = Cardinality({k \in first : trips[k].guide.is_onboarded})
            /\ stats.recentLogins
                  = Cardinality({k \in first : Trips_isRecent(trips[k].guide, now)})
            /\ \A type \in DOMAIN stats.userTypes :
                  stats.userTypes[type]
                      = Cardinality({k \in first : TypeOrUnknown(trips[k].guide) = type})
            /\ \A k \in first : TypeOrUnknown(trips[k].guide) \in DOMAIN stats.userTypes

\* two trips carry guides with id 1 (different records) and a third the
\* guide with id 4: the first record with id 1 and the guide 4 are kept
C17_Witness ==
    /\ route = "trips"
    /\ trips = <<TripAb, TripTwin, TripPhone>>
    /\ uniqueGuides(trips) = <<UserAb, UserPhone>>
    /\ Trips_stats(trips, now).totalUsers = 2

\* ------------------------------------------------------------------------
\* C18: deduplication by id is idempotent: applying the dedup step to a list
\* it already produced returns the same list, same elements in the same
\* order.

C18_DedupIdempotent ==
    /\ route = "trips" =>
          dedupById(dedupById(guides(trips))) = dedupById(guides(trips))
    /\ route = "home" => dedupById(dedupById(users)) = dedupById(users)

\* the guides of three trips, two of them with the same id, are two after
\* the step and the same two after the step is applied again
C18_Witness ==
    /\ route = "trips"
    /\ guides(trips) = <<UserAb, UserTwin, UserPhone>>
    /\ dedupById(guides(trips)) = <<UserAb, UserPhone>>
    /\ dedupById(dedupById(guides(trips))) = <<UserAb, UserPhone>>

\* ------------------------------------------------------------------------
\* C19: a row click on the trips table opens the detail modal with
\* selectedTrip set to the clicked trip, which is one of the records already
\* held in memory, and issues no HTTP request; the record store is unchanged
\* by opening or closing the modal.

C19_RowClickReadsMemory ==
    [][(mountId' = mountId /\ route = "trips") =>
          /\ (selectedTrip' # selectedTrip \/ (~isModalOpen /\ isModalOpen')) =>
                /\ isModalOpen'
                /\ \E k \in 1..Len(Trips_filteredTrips(trips, searchTerm, filterType)) :
                      selectedTrip' = Trips_filteredTrips(trips, searchTerm, filterType)[k]
                /\ selectedTrip' \in Elements(trips)
          /\ (selectedTrip' # selectedTrip \/ isModalOpen' # isModalOpen) =>
                /\ requests' = requests
                /\ trips' = trips
                /\ users' = users
      ]_vars

\* the modal shows the first of the two trips in memory, and the one
\* request of the mount is the only one issued
C19_Witness ==
    /\ route = "trips"
    /\ trips = <<TripAb, TripBlank>>
    /\ isModalOpen
    /\ selectedTrip = TripAb
    /\ Len(requests) = 1

\* ------------------------------------------------------------------------
\* C20: is_finished takes priority over is_cancelled.  For every combination
\* of the two flags the row badge and the modal badge show "Finished" for a
\* finished trip (cancelled or not), "Cancelled" for a trip that is only
\* cancelled and "Active" otherwise, and the status histogram counts each
\* trip once, under the status its badge shows.

\* the status of a trip, by the table of the two flags
StatusByFlags(trip) ==
    CASE trip.is_finished /\ trip.is_cancelled -> "finished"
      [] trip.is_finished /\ ~trip.is_cancelled -> "finished"
      [] ~trip.is_finished /\ trip.is_cancelled -> "cancelled"
      [] ~trip.is_finished /\ ~trip.is_cancelled -> "active"

\* the badge text of a status
LabelOf(status) ==
    CASE status = "finished" -> "Finished"
      [] status = "cancelled" -> "Cancelled"
      [] status = "active" -> "Active"

C20_FinishedTakesPriority ==
    route = "trips" =>
        LET rows == Trips_filteredTrips(trips, searchTerm, filterType)
            histogram == Trips_stats(trips, now).tripStatuses
        IN  /\ \A k \in 1..Len(rows) : RowBadge(rows[k]) = LabelOf(StatusByFlags(rows[k]))
            /\ (isModalOpen /\ selectedTrip # Null) =>
                  ModalBadge(selectedTrip) = LabelOf(StatusByFlags(selectedTrip))
            /\ \A status \in {"finished", "cancelled", "active"} :
                  (IF status \in DOMAIN histogram THEN histogram[status] ELSE 0)
                      = Cardinality({i \in 1..Len(trips) : StatusByFlags(trips[i]) = status})
            /\ DOMAIN histogram \subseteq {"finished", "cancelled", "active"}

\* a trip that is finished and cancelled is open in the modal: its badges
\* read "Finished" and the histogram has it under finished alone
C20_Witness ==
    /\ route = "trips"
    /\ trips = <<TripBlankGuide, TripPhone>>
    /\ TripBlankGuide.is_finished /\ TripBlankGuide.is_cancelled
    /\ isModalOpen
    /\ selectedTrip = TripBlankGuide
    /\ ModalBadge(selectedTrip) = "Finished"
    /\ RowBadge(Trips_filteredTrips(trips, searchTerm, filterType)[1]) = "Finished"
    /\ Trips_stats(trips, now).tripStatuses = [k \in {"finished", "cancelled"} |-> 1]

\* ------------------------------------------------------------------------
\* C21: after the fetch has settled the record store is never changed
\* again.  Every search-term change, filter change, Clear, tab change, row
\* click and modal close leaves the stored records (content and order, the
\* sort of the dashboard list included), the aggregate statistics, the
\* request list and loading/error as they were; only the view state
\* (searchTerm, filterType, activeTab, selectedTrip, isModalOpen) changes.

C21_StoreFrozenAfterSettle ==
    [][(mountId' = mountId /\ mountId > 0 /\ ~loading) =>
          /\ users' = users
          /\ trips' = trips
          /\ Home_stats(users', now') = Home_stats(users, now)
          /\ Trips_stats(trips', now') = Trips_stats(trips, now)
          /\ (<<searchTerm, filterType, activeTab, selectedTrip, isModalOpen>>'
                 # <<searchTerm, filterType, activeTab, selectedTrip, isModalOpen>>) =>
                /\ requests' = requests
                /\ loading' = loading
                /\ error' = error
      ]_vars

\* the dashboard holds an unsorted list, the user has searched and
\* filtered, and the view is the sorted, filtered copy
C21_Witness ==
    /\ route = "home"
    /\ users = <<UserTwin, UserAb>>
    /\ searchTerm = <<"a">>
    /\ filterType = "guide"
    /\ Home_filteredUsers(users, searchTerm, filterType) = <<UserAb>>
    /\ Home_filteredUsers(users, searchTerm, "all") = <<UserAb, UserTwin>>

\* ------------------------------------------------------------------------
\* C22: when the fetch succeeds with data null or an empty list, the page
\* ends in the success state with an empty record store and error null: the
\* content is shown, with the empty state where the list is, and not the
\* error banner.  The error banner is shown if and only if the fetch failed.

C22_EmptySuccessIsNotAnError ==
    /\ (~outcome.threw /\ outcome.value \in {Null, List(<<>>)}) =>
          /\ ~loading
          /\ error = Null
          /\ Records = <<>>
          /\ ContentShown
          /\ ~ErrorBannerShown
          /\ FiltersShown => EmptyStateShown
    /\ ErrorBannerShown <=> outcome.threw

\* the users endpoint answered with data null and the users tab shows
\* "No guides found"
C22_Witness ==
    /\ route = "home"
    /\ outcome = Returned(Null)
    /\ activeTab = "users"
    /\ EmptyStateShown
    /\ ~ErrorBannerShown

\* ------------------------------------------------------------------------
\* C23: if the request settles (resolves or rejects, a success body that
\* fails to parse included), the page eventually leaves the loading state.
\* Loading is false once the request of the mounted page is done, on every
\* completion path; and when every request settles, a page that is loading
\* stops loading, unless it is torn down first.

C23_SettledLeavesLoading ==
    /\ [](\A i \in LiveRequests : requests[i].pc = "done" => ~loading)
    /\ \A m \in 1..MaxMounts :
          (mountId = m /\ loading) ~> (mountId # m \/ ~loading)

\* a 200 response whose body does not parse has ended loading, with the
\* parser's message as the error
C23_Witness ==
    /\ \E i \in LiveRequests : requests[i].pc = "done" /\ requests[i].status = 200
    /\ outcome = Threw(SyntaxErrorText(<<"<", "h", "t", "m", "l", ">">>))
    /\ ~loading

\* ------------------------------------------------------------------------
\* C24: in every reachable state of a page the loading indicator and the
\* error banner are not both shown (never loading together with an error),
\* the content (tabs / table) is shown only when loading is false and error
\* is null, and a failed fetch leaves the record store the empty list.

C24_ExclusiveRenderStates ==
    /\ ~(loading /\ error # Null)
    /\ ~(LoadingShown /\ ErrorBannerShown)
    /\ ContentShown => (~loading /\ error = Null)
    /\ ~(ContentShown /\ (LoadingShown \/ ErrorBannerShown))
    /\ outcome.threw => (users = <<>> /\ trips = <<>>)

\* a second mount of the dashboard has failed: the banner is shown alone,
\* over an empty store
C24_Witness ==
    /\ route = "home"
    /\ mountId = 3
    /\ outcome.threw
    /\ ErrorBannerShown
    /\ ~LoadingShown
    /\ ~ContentShown
    /\ users = <<>>

\* ------------------------------------------------------------------------
\* C25: on the trips page, whenever the modal is open, selectedTrip is
\* non-null, is a record of the trips store, and the page is in the success
\* state; and after any close of the modal selectedTrip is null.

\* the part about the open modal
C25_OpenModalShowsStoredTrip ==
    isModalOpen =>
        /\ route = "trips"
        /\ selectedTrip # Null
        /\ \E k \in 1..Len(trips) : trips[k] = selectedTrip
        /\ ContentShown
        /\ ~outcome.threw
        /\ outcome # Pending

\* the whole statement: selectedTrip is null before the first click, so it
\* is null after every close exactly when it is null whenever the modal is
\* closed
C25_ModalState ==
    /\ C25_OpenModalShowsStoredTrip
    /\ ~isModalOpen => selectedTrip = Null

\* ------------------------------------------------------------------------
\* C26: the three trip status filters partition the trips: every trip, with
\* every combination of is_finished / is_cancelled, matches exactly one of
\* the filters "finished", "cancelled", "active"; the filter it matches is
\* the status its badge displays; and
\* finishedTrips + cancelledTrips + activeTrips = totalTrips.

StatusFilters == {"finished", "cancelled", "active"}

\* the status filters that keep the trip
FiltersMatching(trip) == {f \in StatusFilters : Truthy(Trips_matchesType(trip, f))}

C26_StatusFiltersPartition ==
    route = "trips" =>
        LET s == Trips_stats(trips, now)
        IN  /\ \A k \in 1..Len(trips) :
                  /\ Cardinality(FiltersMatching(trips[k])) = 1
                  /\ \A f \in FiltersMatching(trips[k]) :
                        LabelOf(f) = RowBadge(trips[k])
            /\ s.finishedTrips + s.cancelledTrips + s.activeTrips = s.totalTrips

\* ------------------------------------------------------------------------
\* C27: on the dashboard every type option offered in the filter select (the
\* keys of the type histogram) selects, with an empty search term, exactly as
\* many users as the histogram counts for that key; no offered option yields
\* an empty list, the key produced for users with a missing type included.

C27_OptionsSelectTheirCount ==
    route = "home" =>
        \A o \in Home_userTypeOptions(users) :
            LET selected == Home_filteredUsers(users, <<>>, o)
            IN  /\ Len(selected) = Home_stats(users, now).userTypes[o]
                /\ selected # <<>>

\* ------------------------------------------------------------------------
\* C28: on the trips page the two ways of counting distinct guides agree for
\* every trips list: totalGuides (the size of the set of guide ids) equals
\* totalUsers (the length of the guide list deduplicated by first
\* occurrence), and neither counts a trip without a guide.

\* the distinct ids among the trips that have a guide
GuideIds(ts) == {ts[k].guide.id : k \in Guided(ts)}

C28_GuideCountsAgree ==
    route = "trips" =>
        LET s == Trips_stats(trips, now)
        IN  /\ s.totalGuides = s.totalUsers
            /\ s.totalGuides = Cardinality(GuideIds(trips))
            /\ s.totalUsers = Cardinality(GuideIds(trips))
            /\ s.totalGuides <= Cardinality(Guided(trips))
            /\ Guided(trips) = {} => (s.totalGuides = 0 /\ s.totalUsers = 0)

\* three trips: two guides sharing an id, and a trip without a guide
C28_Witness ==
    /\ route = "trips"
    /\ Len(trips) = 3
    /\ Cardinality(Guided(trips)) = 2
    /\ Cardinality(GuideIds(trips)) = 1
    /\ Trips_stats(trips, now).totalGuides = 1
    /\ Trips_stats(trips, now).totalUsers = 1

\* ------------------------------------------------------------------------
\* C29: histogram counts always sum to their total: for every record list
\* the sum of the userTypes counts equals totalUsers (dashboard and trips
\* page) and the sum of the tripStatuses counts equals totalTrips; and
\* activeUsers, onboardedUsers and recentLogins never exceed totalUsers.

\* the sum of the counts of a histogram over the keys in S
RECURSIVE SumOver(_, _)
SumOver(histogram, S) ==
    IF S = {} THEN 0
    ELSE LET k == CHOOSE x \in S : TRUE
         IN  histogram[k] + SumOver(histogram, S \ {k})

SumOfCounts(histogram) == SumOver(histogram, DOMAIN histogram)

C29_HistogramsSumToTotals ==
    /\ route = "home" =>
          LET s == Home_stats(users, now)
          IN  /\ SumOfCounts(s.userTypes) = s.totalUsers
              /\ \A k \in DOMAIN s.userTypes : s.userTypes[k] >= 1
              /\ s.activeUsers <= s.totalUsers
              /\ s.onboardedUsers <= s.totalUsers
              /\ s.recentLogins <= s.totalUsers
    /\ route = "trips" =>
          LET s == Trips_stats(trips, now)
          IN  /\ SumOfCounts(s.userTypes) = s.totalUsers
              /\ SumOfCounts(s.tripStatuses) = s.totalTrips
              /\ \A k \in DOMAIN s.userTypes : s.userTypes[k] >= 1
              /\ \A k \in DOMAIN s.tripStatuses : s.tripStatuses[k] >= 1
              /\ s.activeUsers <= s.totalUsers
              /\ s.onboardedUsers <= s.totalUsers
              /\ s.recentLogins <= s.totalUsers

\* three users of two types, two of them sharing one, some but not all of
\* them active, onboarded and recently logged in
C29_Witness ==
    /\ route = "home"
    /\ Len(users) = 3
    /\ LET s == Home_stats(users, now)
       IN  /\ Cardinality(DOMAIN s.userTypes) = 2
           /\ \E k \in DOMAIN s.userTypes : s.userTypes[k] = 2
           /\ s.activeUsers \in 1..2
           /\ s.onboardedUsers \in 1..2
           /\ s.recentLogins \in 1..2

\* ------------------------------------------------------------------------
\* C30: the dashboard's and the trips page's recent-login predicates decide
\* the same way for every last_login_at and every evaluation time (a
\* timestamp exactly 7 days old, one in the future and a missing one
\* included), so that no user is counted as recent on one page and not on
\* the other.

\* the users the mounted page counts: its users, or the guides of its trips
Counted == Elements(users) \cup Elements(guides(trips))

C30_RecentPredicatesAgree ==
    \A u \in Counted : Home_isRecent(u, now) = Trips_isRecent(u, now)

====
